---- MODULE Spec2Model ----
(***************************************************************************)
(* ZIMAN (ZIVPN account manager): the credential list kept in              *)
(* /etc/zivpn/config.json, the two programs that rewrite it (the           *)
(* interactive manager ziman.py and the one-shot zivpn-addpass.py), the    *)
(* systemd service they restart, and the other writers of the same file.   *)
(***************************************************************************)
EXTENDS Integers, Sequences, FiniteSets, TLC

(***************************************************************************)
(* JSON values, as Python's json module holds them: a string, a list, or   *)
(* a dict that keeps its keys in insertion order.                          *)
(***************************************************************************)
Str(s) == [t |-> "str", v |-> s]

Arr(items) == [t |-> "arr", v |-> items]

Obj(members) == [t |-> "obj", v |-> members]

Member(key, value) == [k |-> key, val |-> value]

EmptyDict == Obj(<<>>)

EmptyList == Arr(<<>>)

\* What a name refers to when nothing is bound to it (no document loaded).
NoDoc == [t |-> "none", v |-> <<>>]

Keys(d) == {d.v[i].k : i \in 1..Len(d.v)}

HasKey(d, key) == key \in Keys(d)

\* dict.get(key, default)
Get(d, key, default) ==
    IF HasKey(d, key)
    THEN d.v[CHOOSE i \in 1..Len(d.v) : d.v[i].k = key].val
    ELSE default

\* d[key] = value: an existing key keeps its place, a new key goes last.
SetKey(d, key, value) ==
    IF HasKey(d, key)
    THEN Obj([i \in 1..Len(d.v) |->
                 IF d.v[i].k = key THEN Member(key, value) ELSE d.v[i]])
    ELSE Obj(Append(d.v, Member(key, value)))

\* Structural equality of two values: dicts compare by key and value, not
\* by the order of their keys; lists compare element by element.
RECURSIVE JsonEq(_, _)
JsonEq(a, b) ==
    IF a = b THEN TRUE
    ELSE IF a.t # b.t THEN FALSE
    ELSE IF a.t = "obj"
         THEN /\ Keys(a) = Keys(b)
              /\ \A key \in Keys(a) : JsonEq(Get(a, key, NoDoc), Get(b, key, NoDoc))
    ELSE IF a.t = "arr"
         THEN /\ Len(a.v) = Len(b.v)
              /\ \A i \in 1..Len(a.v) : JsonEq(a.v[i], b.v[i])
    ELSE a.v = b.v

(***************************************************************************)
(* The text of the file, as the sequence of its JSON tokens. Commas,       *)
(* colons and the indentation are fixed by the positions of the others.   *)
(***************************************************************************)
Tok(kind, text) == [t |-> kind, v |-> text]

LBrace == Tok("{", "")

RBrace == Tok("}", "")

LBrack == Tok("[", "")

RBrack == Tok("]", "")

\* json.dump(data, f, indent=2)
RECURSIVE Dump(_)
RECURSIVE DumpItems(_)
RECURSIVE DumpMembers(_)
DumpItems(items) ==
    IF items = <<>> THEN <<>>
    ELSE Dump(Head(items)) \o DumpItems(Tail(items))

DumpMembers(members) ==
    IF members = <<>> THEN <<>>
    ELSE <<Tok("s", Head(members).k)>> \o Dump(Head(members).val)
             \o DumpMembers(Tail(members))

Dump(value) ==
    IF value.t = "str" THEN <<Tok("s", value.v)>>
    ELSE IF value.t = "arr" THEN <<LBrack>> \o DumpItems(value.v) \o <<RBrack>>
    ELSE <<LBrace>> \o DumpMembers(value.v) \o <<RBrace>>

\* json.load(f): the result of parsing one value that starts at position
\* at of a text: the value and the position after it, or a failure.
ParseFail == [ok |-> FALSE, val |-> NoDoc, next |-> 0]

ParseOk(value, next) == [ok |-> TRUE, val |-> value, next |-> next]

RECURSIVE ParseValue(_, _)
RECURSIVE ParseItems(_, _, _)
RECURSIVE ParseMembers(_, _, _)
ParseItems(text, at, acc) ==
    IF at > Len(text) THEN ParseFail
    ELSE IF text[at] = RBrack THEN ParseOk(Arr(acc), at + 1)
    ELSE LET item == ParseValue(text, at)
         IN  IF item.ok THEN ParseItems(text, item.next, Append(acc, item.val))
             ELSE ParseFail

ParseMembers(text, at, acc) ==
    IF at > Len(text) THEN ParseFail
    ELSE IF text[at] = RBrace THEN ParseOk(acc, at + 1)
    ELSE IF text[at].t # "s" THEN ParseFail
    ELSE LET value == ParseValue(text, at + 1)
         IN  IF value.ok
             THEN ParseMembers(text, value.next, SetKey(acc, text[at].v, value.val))
             ELSE ParseFail

ParseValue(text, at) ==
    IF at > Len(text) THEN ParseFail
    ELSE IF text[at].t = "s" THEN ParseOk(Str(text[at].v), at + 1)
    ELSE IF text[at] = LBrack THEN ParseItems(text, at + 1, <<>>)
    ELSE IF text[at] = LBrace THEN ParseMembers(text, at + 1, EmptyDict)
    ELSE ParseFail

\* A text is a JSON document when it is one value and nothing more.
Parse(text) ==
    LET r == ParseValue(text, 1)
    IN  IF r.ok /\ r.next = Len(text) + 1 THEN r ELSE ParseFail

(***************************************************************************)
(* Bounds of the model and the constants of the programs.                  *)
(***************************************************************************)
\* The largest number typed at the "password number to remove" prompt.
MaxSel == 3

\* The most operations (menu choices of the manager, runs of the script)
\* the two programs start in one behaviour.
MaxOps == 2

\* The most changes the host makes in one behaviour.
MaxEvents == 1

\* len(password) < 8 asks for confirmation.
MinLen == 8

\* What is typed at a password prompt or given as argv[1].
RawInputs == {"", " ", "abc", "alpha123"}

\* str.strip() on the inputs above.
Strip(raw) == IF raw = " " THEN "" ELSE raw

\* What is typed at "Continue anyway? (y/N)".
Answers == {"y", ""}

\* What is typed at "Enter password number to remove": not a number, or n.
Selections ==
    {[num |-> FALSE, n |-> 0]} \cup {[num |-> TRUE, n |-> i] : i \in 0..MaxSel}

\* The largest number typed at the "Password length" prompt.
MaxTyped == 34

\* The picks random.choice makes for the fill of a generated password
\* repeat with this period.
FillPeriod == 1

\* random.shuffle turns the list, or the reversed list, by at most this
\* many places.
MaxRot == 1

\* The length limits of the generate branch of main, and its default.
GenMin == 8

GenMax == 32

GenDefault == 12

\* string.ascii_lowercase, string.ascii_uppercase, string.digits and the
\* 'special' string of generate_password, each as its set of characters.
Lower ==
    {"a", "b", "c", "d", "e", "f", "g", "h", "i", "j", "k", "l", "m",
     "n", "o", "p", "q", "r", "s", "t", "u", "v", "w", "x", "y", "z"}

Upper ==
    {"A", "B", "C", "D", "E", "F", "G", "H", "I", "J", "K", "L", "M",
     "N", "O", "P", "Q", "R", "S", "T", "U", "V", "W", "X", "Y", "Z"}

Digits == {"0", "1", "2", "3", "4", "5", "6", "7", "8", "9"}

Special == {"!", "@", "#", "$", "%", "^", "&", "*"}

\* all_chars = ''.join(chars.values())
AllChars == Lower \cup Upper \cup Digits \cup Special

\* What is typed at "Password length (default: 12)": nothing, something
\* that is no number, or a number.
TypedLengths ==
    {[kind |-> "empty", n |-> 0], [kind |-> "text", n |-> 0]}
        \cup {[kind |-> "int", n |-> i] : i \in (0 - 1)..MaxTyped}

\* What the random module returns during one call of generate_password:
\* the four first picks, the picks of the fill, and the permutation.
Draws ==
    [lower : {"a"}, upper : {"A"}, digit : {"0"}, special : {"!", "*"},
     fill : [1..FillPeriod -> {"b", "Q", "7", "#"}],
     rev : BOOLEAN, rot : 0..MaxRot]

\* The exit of a systemctl start/stop/restart command when the binary exists.
ExitCodes == {"ok", "fail"}

\* The credential another writer of the file adds.
ExtCred == "ext99999"

ServerSection == Obj(<<Member("port", Str("5667"))>>)

AuthSection(list) ==
    Obj(<<Member("method", Str("passwords")), Member("config", Arr(list)),
          Member("salt", Str("s1"))>>)

\* The documents the file may hold when the model starts: the shape of
\* section 6 with unknown sibling keys, with and without an auth section.
InitDocs ==
    { Obj(<<Member("server", ServerSection),
            Member("auth", AuthSection(<<Str("alpha123")>>)),
            Member("obfs", Str("zivpn"))>>),
      Obj(<<Member("obfs", Str("zivpn")), Member("server", ServerSection)>>) }

(***************************************************************************)
(* State.                                                                  *)
(***************************************************************************)
VARIABLES
    file,       \* CONFIG_FILE: whether it exists, and its text
    writable,   \* whether open(CONFIG_FILE, "w") is permitted
    active,     \* systemctl is-active zivpn
    ctl,        \* whether the systemctl binary exists
    spc,        \* ziman.py: "off", "menu" (in main's loop), "writing" (in save_config, file open)
    config,     \* ziman.py: pm.config, the PasswordManager's document
    sw,         \* ziman.py: the operation whose save is under way
    apc,        \* zivpn-addpass.py: "off", "writing" (in save_config, file open)
    adata,      \* zivpn-addpass.py: data, the document add_password holds
    aw,         \* zivpn-addpass.py: the add whose save is under way
    last,       \* what the last finished operation reported and did
    gen,        \* ziman.py: what the last call of generate_password was given and returned
    ops,        \* operations the two programs have started
    events      \* changes the host has made

vars == <<file, writable, active, ctl, spc, config, sw, apc, adata, aw, last,
          gen, ops, events>>

File(text) == [exists |-> TRUE, text |-> text]

NoFile == [exists |-> FALSE, text |-> <<>>]

\* An operation whose save is under way: what it is, the credential it adds
\* or removes, and what the service and the file were when its write began.
Write(op, arg, wasActive, before) ==
    [op |-> op, arg |-> arg, wasActive |-> wasActive, before |-> before]

NoWrite == Write("none", "", FALSE, NoFile)

\* What a finished operation printed and did: restart is "none", "ok" or "failed".
Report(who, op, result, restart, wasActive) ==
    [who |-> who, op |-> op, result |-> result, restart |-> restart,
     wasActive |-> wasActive]

\* One call of generate_password from the menu: what was typed as the
\* length, the length passed, the list of characters built and the string
\* returned.
Generated(typed, length, chars, password) ==
    [made |-> TRUE, typed |-> typed, length |-> length, chars |-> chars,
     password |-> password]

NoGenerated ==
    [made |-> FALSE, typed |-> [kind |-> "empty", n |-> 0], length |-> 0,
     chars |-> <<>>, password |-> ""]

Init ==
    /\ file \in {File(Dump(d)) : d \in InitDocs}
    /\ writable = TRUE
    /\ active \in BOOLEAN
    /\ ctl = TRUE
    /\ spc = "off"
    /\ config = NoDoc
    /\ sw = NoWrite
    /\ apc = "off"
    /\ adata = NoDoc
    /\ aw = NoWrite
    /\ last = Report("none", "none", "none", "none", FALSE)
    /\ gen = NoGenerated
    /\ ops = 0
    /\ events = 0

(***************************************************************************)
(* ziman.py                                                                *)
(***************************************************************************)
\* One more operation is started, within the bound.
StartOp == ops < MaxOps /\ ops' = ops + 1 /\ UNCHANGED events

\* A step that starts no operation: the start of the manager, and the
\* steps inside an operation already started.
Continue == UNCHANGED <<ops, events>>

\* One more change by the host, within the bound.
HostEvent == events < MaxEvents /\ events' = events + 1 /\ UNCHANGED ops

\* ConfigManager.load_config: the document, or the failure that ends the process.
LoadConfig(f) ==
    IF ~f.exists THEN [ok |-> FALSE, err |-> "notfound", doc |-> NoDoc]
    ELSE LET r == Parse(f.text)
         IN  IF r.ok THEN [ok |-> TRUE, err |-> "", doc |-> r.val]
             ELSE [ok |-> FALSE, err |-> "parse", doc |-> NoDoc]

\* PasswordManager.get_passwords: the list of credential strings.
GetPasswords(cfg) == Get(Get(cfg, "auth", EmptyDict), "config", EmptyList).v

\* The list get_passwords returns is the list object inside self.config
\* when auth.config exists, so what a caller does to it is done to
\* self.config; otherwise it is a fresh list and self.config is untouched.
StoreAliased(cfg, passwords) ==
    IF HasKey(cfg, "auth") /\ HasKey(Get(cfg, "auth", EmptyDict), "config")
    THEN SetKey(cfg, "auth",
                SetKey(Get(cfg, "auth", EmptyDict), "config", Arr(passwords)))
    ELSE cfg

\* password in passwords
Contains(passwords, password) ==
    \E i \in 1..Len(passwords) : passwords[i] = Str(password)

\* passwords.pop() as it would be without its index: the list without its
\* last entry.
PopLast(passwords, idx) ==
    [i \in 1..(Len(passwords) - 1) |-> passwords[i]]

\* passwords.pop(idx - 1): the list without its idx-th entry.
Pop(passwords, idx) ==
    [i \in 1..(Len(passwords) - 1) |->
        IF i < idx THEN passwords[i] ELSE passwords[i + 1]]

\* update_passwords as it would be if it built the auth section anew.
SetPasswordsFresh(cfg, passwords) ==
    SetKey(cfg, "auth", Obj(<<Member("config", Arr(passwords))>>))

\* PasswordManager.update_passwords, its change of self.config.
SetPasswords(cfg, passwords) ==
    LET withAuth == IF HasKey(cfg, "auth") THEN cfg
                    ELSE SetKey(cfg, "auth", EmptyDict)
    IN  SetKey(withAuth, "auth",
               SetKey(Get(withAuth, "auth", EmptyDict), "config", Arr(passwords)))

\* add_password as it would be without its membership test.
AddCheckNoDuplicateTest(cfg, password, proceed) ==
    IF password = ""
    THEN [result |-> "empty", passwords |-> GetPasswords(cfg)]
    ELSE IF Len(password) < MinLen /\ proceed # "y"
    THEN [result |-> "cancelled", passwords |-> GetPasswords(cfg)]
    ELSE [result |-> "ok", passwords |-> Append(GetPasswords(cfg), Str(password))]

\* add_password as it would be if it appended before its membership test.
AddCheckAppendFirst(cfg, password, proceed) ==
    IF password = ""
    THEN [result |-> "empty", passwords |-> GetPasswords(cfg)]
    ELSE IF Len(password) < MinLen /\ proceed # "y"
    THEN [result |-> "cancelled", passwords |-> GetPasswords(cfg)]
    ELSE IF Contains(GetPasswords(cfg), password)
    THEN [result |-> "duplicate",
          passwords |-> Append(GetPasswords(cfg), Str(password))]
    ELSE [result |-> "ok", passwords |-> Append(GetPasswords(cfg), Str(password))]

\* PasswordManager.add_password up to its call of update_passwords: the
\* rejection it prints, or "ok" with the list to store.
AddCheck(cfg, password, proceed) ==
    IF password = ""
    THEN [result |-> "empty", passwords |-> GetPasswords(cfg)]
    ELSE IF Len(password) < MinLen /\ proceed # "y"
    THEN [result |-> "cancelled", passwords |-> GetPasswords(cfg)]
    ELSE IF Contains(GetPasswords(cfg), password)
    THEN [result |-> "duplicate", passwords |-> GetPasswords(cfg)]
    ELSE [result |-> "ok", passwords |-> Append(GetPasswords(cfg), Str(password))]

\* PasswordManager.remove_password up to its call of update_passwords.
RemoveCheck(cfg, sel) ==
    IF GetPasswords(cfg) = <<>>
    THEN [result |-> "nothing", passwords |-> GetPasswords(cfg), removed |-> ""]
    ELSE IF ~sel.num
    THEN [result |-> "notnumber", passwords |-> GetPasswords(cfg), removed |-> ""]
    ELSE IF sel.n < 1 \/ sel.n > Len(GetPasswords(cfg))
    THEN [result |-> "invalid", passwords |-> GetPasswords(cfg), removed |-> ""]
    ELSE [result |-> "ok", passwords |-> Pop(GetPasswords(cfg), sel.n),
          removed |-> GetPasswords(cfg)[sel.n].v]

\* ServiceManager.get_service_status()["active"]: a missing systemctl is
\* caught and leaves the default, False.
StatusActive == ctl /\ active

\* ServiceManager.restart_service: "ok" or "failed"; a missing systemctl and
\* a non-zero exit are both caught.
RestartResult(rc) == IF ctl /\ rc = "ok" THEN "ok" ELSE "failed"

\* The unit after a restart command: running when it succeeded, failed
\* when systemd could not restart it, untouched when systemctl is missing.
AfterRestart(result) ==
    IF result = "ok" THEN TRUE ELSE IF ctl THEN FALSE ELSE active

Exit(op, result) ==
    /\ spc' = "off"
    /\ config' = NoDoc
    /\ sw' = NoWrite
    /\ last' = Report("ziman", op, result, "none", FALSE)

\* main: pm = PasswordManager(), which loads the document once.
SessionStart ==
    /\ spc = "off"
    /\ Continue
    /\ LET l == LoadConfig(file)
       IN  IF l.ok
           THEN /\ spc' = "menu"
                /\ config' = l.doc
                /\ last' = Report("ziman", "session", "ok", "none", FALSE)
                /\ UNCHANGED sw
           ELSE Exit("session", "exit1")
    /\ UNCHANGED <<file, writable, active, ctl, apc, adata, aw, gen>>

\* update_passwords as far as save_config's open(CONFIG_FILE, "w"): the
\* list is stored in self.config and the file is truncated, or the open is
\* refused and the process exits.
BeginSave(op, arg, passwords) ==
    IF writable
    THEN /\ config' = SetPasswords(config, passwords)
         /\ file' = File(<<>>)
         /\ spc' = "writing"
         /\ sw' = Write(op, arg, StatusActive, file)
         /\ last' = Report("ziman", op, "saving", "none", FALSE)
    ELSE /\ Exit(op, "exit1")
         /\ UNCHANGED file

\* A return before update_passwords: a message, and the list as the checks
\* left it.
Reject(op, result, passwords) ==
    /\ last' = Report("ziman", op, result, "none", FALSE)
    /\ config' = StoreAliased(config, passwords)
    /\ UNCHANGED <<file, spc, sw, gen>>

\* Password menu 1: pm.add_password() with the typed password.
AddPassword(raw, proceed) ==
    /\ spc = "menu"
    /\ StartOp
    /\ LET c == AddCheck(config, Strip(raw), proceed)
       IN  IF c.result = "ok"
           THEN BeginSave("add", Strip(raw), c.passwords)
           ELSE Reject("add", c.result, c.passwords)
    /\ UNCHANGED <<writable, active, ctl, apc, adata, aw, gen>>

\* Password menu 3: pm.remove_password() with the typed number.
RemovePassword(sel) ==
    /\ spc = "menu"
    /\ StartOp
    /\ LET c == RemoveCheck(config, sel)
       IN  IF c.result = "ok"
           THEN BeginSave("remove", c.removed, c.passwords)
           ELSE Reject("remove", c.result, c.passwords)
    /\ UNCHANGED <<writable, active, ctl, apc, adata, aw, gen>>

\* main, generate branch: int(input().strip() or "12"), brought into
\* [8, 32]; what is no number gives the default.
ClampLength(typed) ==
    IF typed.kind = "text" THEN GenDefault
    ELSE LET length == IF typed.kind = "empty" THEN GenDefault ELSE typed.n
         IN  IF length < GenMin THEN GenMin
             ELSE IF length > GenMax THEN GenMax
             ELSE length

\* random.choice(all_chars) for _ in range(count): nothing when count <= 0.
Fill(count, d) ==
    [i \in 1..count |-> d.fill[((i - 1) % FillPeriod) + 1]]

\* random.shuffle(password)
Shuffle(list, d) ==
    LET n == Len(list)
        turned == [i \in 1..n |-> list[((i - 1 + d.rot) % n) + 1]]
    IN  IF d.rev THEN [i \in 1..n |-> turned[n + 1 - i]] ELSE turned

\* generate_password as it would be if the fill had length picks.
GenerateCharsFillLength(length, d) ==
    Shuffle(<<d.lower, d.upper, d.digit, d.special>> \o Fill(length, d), d)

\* generate_password, the list it builds: one pick of each class, the
\* fill, shuffled.
GenerateChars(length, d) ==
    Shuffle(<<d.lower, d.upper, d.digit, d.special>> \o Fill(length - 4, d), d)

\* ''.join(password)
RECURSIVE Join(_)
Join(chars) == IF chars = <<>> THEN "" ELSE Head(chars) \o Join(Tail(chars))

\* Password menu 2: the length is read and clamped, generate_password is
\* called and pm.add_password(password) is given what it returns.
GenerateAndAdd(typed, d, proceed) ==
    /\ spc = "menu"
    /\ StartOp
    /\ LET length == ClampLength(typed)
           chars == GenerateChars(length, d)
           password == Join(chars)
           c == AddCheck(config, password, proceed)
       IN  /\ gen' = Generated(typed, length, chars, password)
           /\ IF c.result = "ok"
              THEN BeginSave("add", password, c.passwords)
              ELSE Reject("add", c.result, c.passwords)
    /\ UNCHANGED <<writable, active, ctl, apc, adata, aw>>

\* update_passwords as it would be if a restart that fails put the file
\* back as it was before the save.
FinishSaveRollback(rc) ==
    /\ spc = "writing"
    /\ Continue
    /\ LET restart == IF StatusActive THEN RestartResult(rc) ELSE "none"
       IN  /\ file' = IF restart = "failed" THEN sw.before ELSE File(Dump(config))
           /\ active' = IF restart = "none" THEN active ELSE AfterRestart(restart)
           /\ last' = Report("ziman", sw.op,
                             IF sw.op = "add" THEN "added" ELSE "removed",
                             restart, sw.wasActive)
    /\ spc' = "menu"
    /\ sw' = NoWrite
    /\ UNCHANGED <<writable, ctl, config, apc, adata, aw, gen>>

\* The rest of save_config (json.dump, close) and of update_passwords: the
\* status query, and the restart when the service is active.
FinishSave(rc) ==
    /\ spc = "writing"
    /\ Continue
    /\ file' = File(Dump(config))
    /\ LET restart == IF StatusActive THEN RestartResult(rc) ELSE "none"
       IN  /\ active' = IF restart = "none" THEN active ELSE AfterRestart(restart)
           /\ last' = Report("ziman", sw.op,
                             IF sw.op = "add" THEN "added" ELSE "removed",
                             restart, sw.wasActive)
    /\ spc' = "menu"
    /\ sw' = NoWrite
    /\ UNCHANGED <<writable, ctl, config, apc, adata, aw, gen>>

\* What an interrupted json.dump leaves in the file: nothing (the buffer
\* was never flushed), or the part of the text written so far.
Interrupted(doc) ==
    {File(SubSeq(Dump(doc), 1, n)) : n \in {0, Len(Dump(doc)) \div 2}}

\* The interrupt of a save as it would be if update_passwords restarted
\* the service before it saved.
InterruptAfterRestart ==
    /\ spc = "writing"
    /\ Continue
    /\ file' \in Interrupted(config)
    /\ LET restart == IF StatusActive THEN RestartResult("ok") ELSE "none"
       IN  /\ active' = IF restart = "none" THEN active ELSE AfterRestart(restart)
           /\ last' = Report("ziman", sw.op, "interrupted", restart, sw.wasActive)
    /\ spc' = "off"
    /\ config' = NoDoc
    /\ sw' = NoWrite
    /\ UNCHANGED <<writable, ctl, apc, adata, aw, gen>>

\* The process is interrupted (Ctrl-C, a kill) while save_config has the
\* file open: nothing more is written.
Interrupt ==
    /\ spc = "writing"
    /\ Continue
    /\ file' \in Interrupted(config)
    /\ Exit(sw.op, "interrupted")
    /\ UNCHANGED <<writable, active, ctl, apc, adata, aw, gen>>

\* Service menu 1: ServiceManager.start_service. A missing systemctl raises
\* FileNotFoundError, which only __main__ catches, and the process exits.
StartService(rc) ==
    /\ spc = "menu"
    /\ StartOp
    /\ IF ~ctl
       THEN Exit("start", "exit1") /\ UNCHANGED active
       ELSE /\ active' = IF rc = "ok" THEN TRUE ELSE active
            /\ last' = Report("ziman", "start",
                              IF rc = "ok" THEN "true" ELSE "false", "none", FALSE)
            /\ UNCHANGED <<spc, config, sw>>
    /\ UNCHANGED <<file, writable, ctl, apc, adata, aw, gen>>

\* Service menu 2: ServiceManager.stop_service, as start_service.
StopService(rc) ==
    /\ spc = "menu"
    /\ StartOp
    /\ IF ~ctl
       THEN Exit("stop", "exit1") /\ UNCHANGED active
       ELSE /\ active' = IF rc = "ok" THEN FALSE ELSE active
            /\ last' = Report("ziman", "stop",
                              IF rc = "ok" THEN "true" ELSE "false", "none", FALSE)
            /\ UNCHANGED <<spc, config, sw>>
    /\ UNCHANGED <<file, writable, ctl, apc, adata, aw, gen>>

\* Service menu 3: ServiceManager.restart_service.
RestartService(rc) ==
    /\ spc = "menu"
    /\ StartOp
    /\ active' = AfterRestart(RestartResult(rc))
    /\ last' = Report("ziman", "restart",
                      IF RestartResult(rc) = "ok" THEN "true" ELSE "false",
                      RestartResult(rc), FALSE)
    /\ UNCHANGED <<file, writable, ctl, spc, config, sw, apc, adata, aw, gen>>

\* Main menu 1: CLIInterface.display_dashboard. The status query and the
\* network query catch their failures; PasswordManager() and
\* get_config_info call load_config, which exits the process on a failure.
Dashboard(net) ==
    /\ spc = "menu"
    /\ StartOp
    /\ IF LoadConfig(file).ok
       THEN /\ last' = Report("ziman", "dashboard",
                              IF net = "ok" THEN "shown" ELSE "shown_no_ip",
                              "none", FALSE)
            /\ UNCHANGED <<spc, config, sw>>
       ELSE Exit("dashboard", "exit1")
    /\ UNCHANGED <<file, writable, active, ctl, apc, adata, aw, gen>>

\* Main menu 6: leave the loop.
Quit ==
    /\ spc = "menu"
    /\ StartOp
    /\ Exit("quit", "exit0")
    /\ UNCHANGED <<file, writable, active, ctl, apc, adata, aw, gen>>

(***************************************************************************)
(* zivpn-addpass.py                                                        *)
(***************************************************************************)
AddpassEnd(result, restart, wasActive) ==
    /\ apc' = "off"
    /\ adata' = NoDoc
    /\ aw' = NoWrite
    /\ last' = Report("addpass", "add", result, restart, wasActive)

\* add_password up to save_config's open(CONFIG_FILE, "w"). A file that is
\* missing or does not parse, a document without "auth" and a refused open
\* each raise, and nothing catches: the script ends with a traceback.
AddpassCheck(data, newPass) ==
    LET passwords == GetPasswords(data)
    IN  IF Contains(passwords, newPass)
        THEN [result |-> "duplicate", data |-> data]
        ELSE IF ~HasKey(data, "auth")
        THEN [result |-> "crash", data |-> data]
        ELSE [result |-> "ok",
              data |-> SetKey(data, "auth",
                          SetKey(Get(data, "auth", EmptyDict), "config",
                                 Arr(Append(passwords, Str(newPass)))))]

AddpassRun(raw) ==
    /\ apc = "off"
    /\ StartOp
    /\ LET l == LoadConfig(file)
           c == AddpassCheck(l.doc, Strip(raw))
       IN  IF ~l.ok
           THEN AddpassEnd("crash", "none", FALSE) /\ UNCHANGED file
           ELSE IF c.result # "ok"
           THEN AddpassEnd(c.result, "none", FALSE) /\ UNCHANGED file
           ELSE IF ~writable
           THEN AddpassEnd("crash", "none", FALSE) /\ UNCHANGED file
           ELSE /\ file' = File(<<>>)
                /\ apc' = "writing"
                /\ adata' = c.data
                /\ aw' = Write("add", Strip(raw), StatusActive, file)
                /\ last' = Report("addpass", "add", "saving", "none", FALSE)
    /\ UNCHANGED <<writable, active, ctl, spc, config, sw, gen>>

\* The rest of save_config, then os.system("systemctl restart zivpn"),
\* whatever the service was doing; os.system raises nothing.
AddpassFinish(rc) ==
    /\ apc = "writing"
    /\ Continue
    /\ file' = File(Dump(adata))
    /\ active' = AfterRestart(RestartResult(rc))
    /\ AddpassEnd("added", RestartResult(rc), aw.wasActive)
    /\ UNCHANGED <<writable, ctl, spc, config, sw, gen>>

AddpassInterrupt ==
    /\ apc = "writing"
    /\ Continue
    /\ file' \in Interrupted(adata)
    /\ AddpassEnd("interrupted", "none", FALSE)
    /\ UNCHANGED <<writable, active, ctl, spc, config, sw, gen>>

(***************************************************************************)
(* The host: the administrator, systemd, and other writers of the file.    *)
(***************************************************************************)
\* The unit starts or stops without either program (systemctl by hand, a crash).
EnvService ==
    /\ HostEvent
    /\ active' = ~active
    /\ UNCHANGED <<file, writable, ctl, spc, config, sw, apc, adata, aw, last, gen>>

\* systemctl appears or disappears from PATH.
EnvCtl ==
    /\ HostEvent
    /\ ctl' = ~ctl
    /\ UNCHANGED <<file, writable, active, spc, config, sw, apc, adata, aw, last, gen>>

\* The permission to write the file is given or taken.
EnvChmod ==
    /\ HostEvent
    /\ writable' = ~writable
    /\ UNCHANGED <<file, active, ctl, spc, config, sw, apc, adata, aw, last, gen>>

\* Another writer replaces the file by an edit of the document it holds:
\* it adds a credential, removes one, or sets another key.
ExtEdits(doc) ==
    LET passwords == GetPasswords(doc)
    IN  {SetKey(doc, "obfs", Str("tls"))}
        \cup {SetPasswords(doc, Append(passwords, Str(ExtCred))) :
                 x \in {y \in {ExtCred} : ~Contains(passwords, y)}}
        \cup {SetPasswords(doc, Pop(passwords, i)) : i \in 1..Len(passwords)}

ExtEdit ==
    /\ HostEvent
    /\ LET l == LoadConfig(file)
       IN  /\ l.ok
           /\ \E d \in ExtEdits(l.doc) : file' = File(Dump(d))
    /\ UNCHANGED <<writable, active, ctl, spc, config, sw, apc, adata, aw, last, gen>>

\* The file is deleted.
ExtDelete ==
    /\ HostEvent
    /\ LoadConfig(file).ok
    /\ file' = NoFile
    /\ UNCHANGED <<writable, active, ctl, spc, config, sw, apc, adata, aw, last, gen>>

\* What the sessions of Next type at the length prompt (Enter alone, the
\* default) and draw.
SessionTyped == [kind |-> "empty", n |-> 0]

SessionDraw ==
    [lower |-> "a", upper |-> "A", digit |-> "0", special |-> "!",
     fill |-> [i \in 1..FillPeriod |-> "b"], rev |-> FALSE, rot |-> 0]

(***************************************************************************)
(* Specification.                                                          *)
(***************************************************************************)
Next ==
    \/ SessionStart
    \/ \E raw \in RawInputs, proceed \in Answers : AddPassword(raw, proceed)
    \/ \E proceed \in Answers :
           GenerateAndAdd(SessionTyped, SessionDraw, proceed)
    \/ \E sel \in Selections : RemovePassword(sel)
    \/ \E rc \in ExitCodes : FinishSave(rc)
    \/ Interrupt
    \/ \E rc \in ExitCodes : StartService(rc)
    \/ \E rc \in ExitCodes : StopService(rc)
    \/ \E rc \in ExitCodes : RestartService(rc)
    \/ \E net \in {"ok", "fail"} : Dashboard(net)
    \/ Quit
    \/ \E raw \in RawInputs : AddpassRun(raw)
    \/ \E rc \in ExitCodes : AddpassFinish(rc)
    \/ AddpassInterrupt
    \/ EnvService
    \/ EnvCtl
    \/ EnvChmod
    \/ ExtEdit
    \/ ExtDelete

Spec == Init /\ [][Next]_vars

\* The generator by itself: a session in which the generate branch is taken
\* once, with every length and every draw.
NextGen ==
    \/ SessionStart
    \/ /\ ops = 0
       /\ \E typed \in TypedLengths, d \in Draws, proceed \in Answers :
              GenerateAndAdd(typed, d, proceed)
    \/ \E rc \in ExitCodes : FinishSave(rc)
    \/ Interrupt

SpecGen == Init /\ [][NextGen]_vars

(***************************************************************************)
(* Properties.                                                             *)
(***************************************************************************)
DiskOk(f) == LoadConfig(f).ok

DiskDoc(f) == LoadConfig(f).doc

DiskPasswords(f) == GetPasswords(LoadConfig(f).doc)

NoDuplicates(passwords) ==
    \A i, j \in 1..Len(passwords) : passwords[i] = passwords[j] => i = j

\* Document b is document a but for auth.config (and the auth section
\* itself, when a has none).
SameExceptPasswords(a, b) ==
    /\ Keys(b) \ {"auth"} = Keys(a) \ {"auth"}
    /\ \A key \in Keys(a) \ {"auth"} : JsonEq(Get(a, key, NoDoc), Get(b, key, NoDoc))
    /\ LET aa == Get(a, "auth", EmptyDict)
           ba == Get(b, "auth", EmptyDict)
       IN  /\ Keys(ba) \ {"config"} = Keys(aa) \ {"config"}
           /\ \A key \in Keys(aa) \ {"config"} :
                  JsonEq(Get(aa, key, NoDoc), Get(ba, key, NoDoc))

\* The file f holds everything the file held when write w began, but for
\* the credential w removes.
KeepsWhatWasOnDisk(w, f) ==
    LET before == LoadConfig(w.before)
        after == LoadConfig(f)
        was == GetPasswords(before.doc)
    IN  before.ok =>
            /\ after.ok
            /\ SameExceptPasswords(before.doc, after.doc)
            /\ \A i \in 1..Len(was) :
                   \/ w.op = "remove" /\ was[i] = Str(w.arg)
                   \/ Contains(GetPasswords(after.doc), was[i].v)

\* The file f parses to a document equal to doc.
Holds(f, doc) == LET l == LoadConfig(f) IN l.ok /\ JsonEq(l.doc, doc)

ZimanAccepts == spc = "menu" /\ spc' = "writing"

ZimanFinishes == spc = "writing" /\ spc' = "menu"

AddpassAccepts == apc = "off" /\ apc' = "writing"

AddpassFinishes == apc = "writing" /\ apc' = "off" /\ last'.result = "added"

\* An operation of either program that started in this step and was rejected.
Rejections == {"empty", "cancelled", "duplicate", "nothing", "notnumber", "invalid"}

RejectedStep == ops' # ops /\ last'.op \in {"add", "remove"} /\ last'.result \in Rejections

\* C1: every add and remove of the manager starts from the document that is
\* on disk when the operation starts, and its save keeps what another
\* writer put there since the previous operation.
C1_OperationStartsFromDisk ==
    [][ /\ ZimanAccepts => Holds(file, config)
        /\ ZimanFinishes => \A written \in {file'} : KeepsWhatWasOnDisk(sw, written) ]_vars

C3_RestartIffWasActive ==
    (last.op \in {"add", "remove"} /\ last.result \in {"added", "removed"})
        => (last.restart # "none" <=> last.wasActive)

\* C4: a rejected add or remove changes neither the file, nor the list in
\* memory, nor the service, and issues no restart.
C4_RejectionChangesNothing ==
    [][ RejectedStep =>
            /\ file' = file
            /\ config' = config
            /\ active' = active
            /\ last'.restart = "none"
            /\ spc' = spc
            /\ apc' = IF last'.who = "ziman" THEN apc ELSE "off" ]_vars

\* C4's case: add rejected because the short password was not confirmed,
\* remove rejected because the number is out of range.
C4_Witness ==
    /\ last.who = "ziman" /\ last.result \in {"cancelled", "invalid"}
    /\ spc = "menu" /\ GetPasswords(config) # <<>>

\* C5: a remove is carried out only when the selected value is in the list
\* that is on disk at that moment; when the list on disk no longer holds
\* it, the remove fails and the file is as it was.
C5_StaleSelectionRejected ==
    [][ (ZimanAccepts /\ sw'.op = "remove" /\ DiskOk(file)) =>
            Contains(DiskPasswords(file), sw'.arg) ]_vars

\* C6: whoever reads the file finds a complete document.
C6_ReaderSeesCompleteDocument == file.exists => DiskOk(file)

\* C7: when the restart after an accepted add or remove fails, or systemctl
\* is missing, the file holds the new list and the program goes on (the
\* manager is back in its menu, the script ends as after a restart that
\* worked).
C7_FailedRestartKeepsChange ==
    [][ /\ (spc = "writing" /\ ops' = ops /\ last'.who = "ziman"
              /\ last'.result \in {"added", "removed"}
              /\ (last'.restart = "failed" \/ ~ctl)) =>
               /\ spc' = "menu"
               /\ \A written \in {file'} :
                      /\ DiskOk(written)
                      /\ DiskPasswords(written) = GetPasswords(config)
                      /\ (sw.op = "add") => Contains(DiskPasswords(written), sw.arg)
                      /\ (sw.op = "remove") => ~Contains(DiskPasswords(written), sw.arg)
        /\ (apc = "writing" /\ ops' = ops /\ last'.who = "addpass"
              /\ last'.restart = "failed") =>
               /\ last'.result = "added"
               /\ \A written \in {file'} :
                      DiskOk(written) /\ Contains(DiskPasswords(written), aw.arg) ]_vars

\* C7's case: the manager's restart failed after an add and the manager
\* is in its menu.
C7_Witness ==
    /\ last.who = "ziman" /\ last.op = "add" /\ last.result = "added"
    /\ last.restart = "failed" /\ spc = "menu"

\* C8: start, stop and restart return a value whatever systemctl does: the
\* manager does not exit.
C8_SupervisorFailureNotFatal ==
    (last.who = "ziman" /\ last.op \in {"start", "stop", "restart"})
        => last.result \in {"true", "false"}

\* C9: the dashboard is shown whichever of its queries fails: the manager
\* does not exit.
C9_DashboardDegrades ==
    (last.who = "ziman" /\ last.op = "dashboard")
        => last.result \in {"shown", "shown_no_ip"}

\* What load returned, saved and loaded again, is an equal document.
RoundTripOf(loaded) ==
    LET again == Parse(Dump(loaded.doc))
    IN  loaded.ok => (again.ok /\ JsonEq(again.val, loaded.doc))

RoundTrip(f) == \A loaded \in {LoadConfig(f)} : RoundTripOf(loaded)

\* C10: loading the file, saving what was loaded and loading again gives
\* an equal document, and an accepted add or remove writes the document the
\* program loaded with nothing but auth.config changed. A file is the one
\* the behaviour starts with or one that a step wrote: the first is tried
\* while nothing has happened yet, the others in the step that writes them.
C10_RoundTrip ==
    [][ /\ (ops = 0 /\ events = 0) => RoundTrip(file)
        /\ (file' # file \/ ZimanFinishes \/ AddpassFinishes) =>
               \A loaded \in {LoadConfig(file')} :
                   /\ RoundTripOf(loaded)
                   /\ ZimanFinishes => (loaded.ok /\ JsonEq(loaded.doc, config))
                   /\ AddpassFinishes => (loaded.ok /\ JsonEq(loaded.doc, adata))
        /\ ZimanAccepts => \A stored \in {config'} : SameExceptPasswords(config, stored)
        /\ AddpassAccepts => \A stored \in {adata'} : SameExceptPasswords(DiskDoc(file), stored) ]_vars

\* C10's case: the manager has saved an add to a document with unknown
\* keys at both levels, and they are in the file.
C10_Witness ==
    /\ last.who = "ziman" /\ last.result = "added" /\ DiskOk(file)
    /\ JsonEq(Get(DiskDoc(file), "obfs", NoDoc), Str("zivpn"))
    /\ JsonEq(Get(Get(DiskDoc(file), "auth", EmptyDict), "salt", NoDoc), Str("s1"))
    /\ Len(DiskPasswords(file)) >= 2

\* C11: no credential of the list on disk is the empty string: every entry
\* point rejects a candidate that is empty, or empty once stripped.
C11_NoEmptyCredential ==
    DiskOk(file) => ~Contains(DiskPasswords(file), "")

\* C12: the generator is given the typed length brought into [8, 32], and
\* returns a string of exactly that length, built of characters of the
\* four classes only, with at least one of each class.
C12_GeneratedPassword ==
    gen.made =>
        /\ gen.length >= GenMin /\ gen.length <= GenMax
        /\ gen.typed.kind = "int" =>
               /\ (gen.typed.n >= GenMin /\ gen.typed.n <= GenMax) => gen.length = gen.typed.n
               /\ gen.typed.n < GenMin => gen.length = GenMin
               /\ gen.typed.n > GenMax => gen.length = GenMax
        /\ Len(gen.password) = gen.length
        /\ Len(gen.chars) = gen.length
        /\ \A i \in 1..Len(gen.chars) : gen.chars[i] \in AllChars
        /\ \E i \in 1..Len(gen.chars) : gen.chars[i] \in Lower
        /\ \E i \in 1..Len(gen.chars) : gen.chars[i] \in Upper
        /\ \E i \in 1..Len(gen.chars) : gen.chars[i] \in Digits
        /\ \E i \in 1..Len(gen.chars) : gen.chars[i] \in Special

\* C12's case: a length above the limit was typed, and the password
\* generated for the limit is saved in the file.
C12_Witness ==
    /\ gen.made /\ gen.typed.kind = "int" /\ gen.typed.n > GenMax
    /\ Len(gen.password) = GenMax
    /\ last.result = "added" /\ DiskOk(file)
    /\ Contains(DiskPasswords(file), gen.password)

\* C13: an add or remove restarts the service only in the step that
\* completes its save, with the file holding the document it saved; an
\* operation that is rejected, whose save is refused or whose save is cut
\* short issues no restart and leaves the service as it was.
C13_RestartOnlyAfterSave ==
    [][ /\ (ops' # ops /\ last'.op \in {"add", "remove"}) =>
               (active' = active /\ last'.restart = "none")
        /\ (spc = "writing" /\ spc' # "writing") =>
               \/ spc' = "menu" /\ \A written \in {file'} : Holds(written, config)
               \/ spc' = "off" /\ active' = active /\ last'.restart = "none"
        /\ (apc = "writing" /\ apc' # "writing") =>
               \/ last'.result = "added" /\ \A written \in {file'} : Holds(written, adata)
               \/ last'.result # "added" /\ active' = active /\ last'.restart = "none" ]_vars

\* C13's case: the service was restarted by an add or remove of the
\* manager, and the file holds the list that operation saved.
C13_Witness ==
    /\ last.who = "ziman" /\ last.op \in {"add", "remove"} /\ last.restart = "ok"
    /\ spc = "menu" /\ DiskOk(file)
    /\ DiskPasswords(file) = GetPasswords(config)

\* List new is list was without its entry at (1-based) position idx, the
\* others in their order.
WithoutEntry(was, idx, new) ==
    /\ Len(new) = Len(was) - 1
    /\ \A j \in 1..Len(new) : new[j] = IF j < idx THEN was[j] ELSE was[j + 1]

\* List new is list was with one more entry, value, at its end.
WithAtEnd(was, value, new) ==
    /\ Len(new) = Len(was) + 1
    /\ \A j \in 1..Len(was) : new[j] = was[j]
    /\ new[Len(new)] = Str(value)

\* C14: a remove accepted while the file holds the list that was shown
\* stores that list without the one entry selected, the others in their
\* order; an accepted add stores the list with the candidate at its end;
\* and the save puts the stored list in the file.
C14_ExactEntryRemoved ==
    [][ /\ (ZimanAccepts /\ sw'.op = "remove" /\ DiskOk(file)
              /\ DiskPasswords(file) = GetPasswords(config)) =>
               \A stored \in {GetPasswords(config')} :
                   \E idx \in 1..Len(DiskPasswords(file)) :
                       /\ DiskPasswords(file)[idx] = Str(sw'.arg)
                       /\ WithoutEntry(DiskPasswords(file), idx, stored)
        /\ (ZimanAccepts /\ sw'.op = "add") =>
               \A stored \in {GetPasswords(config')} :
                   WithAtEnd(GetPasswords(config), sw'.arg, stored)
        /\ ZimanFinishes =>
               \A written \in {file'} :
                   DiskOk(written) /\ DiskPasswords(written) = GetPasswords(config) ]_vars

\* C14's case: the first of two credentials was removed and the file
\* holds the second alone.
C14_Witness ==
    /\ last.who = "ziman" /\ last.op = "remove" /\ last.result = "removed"
    /\ DiskOk(file) /\ Len(DiskPasswords(file)) = 1
    /\ ~Contains(DiskPasswords(file), "alpha123")
    /\ spc = "menu" /\ DiskPasswords(file) = GetPasswords(config)

\* C15: an add to a document without an auth section is carried out by
\* either program: it is not refused and the program does not fail, the
\* document it goes on to save has an auth section whose list is the
\* candidate alone, and every other key is as it was.
C15_AddCreatesAuthSection ==
    [][ /\ (ops' # ops /\ last'.who = "ziman" /\ last'.op = "add" /\ writable
              /\ ~HasKey(config, "auth") /\ last'.result \notin Rejections) =>
               /\ spc' = "writing"
               /\ \A stored \in {config'} :
                      /\ HasKey(stored, "auth")
                      /\ GetPasswords(stored) = <<Str(sw'.arg)>>
                      /\ SameExceptPasswords(config, stored)
        /\ (ops' # ops /\ last'.who = "addpass" /\ writable /\ DiskOk(file)
              /\ ~HasKey(DiskDoc(file), "auth")) =>
               /\ apc' = "writing"
               /\ \A stored \in {adata'} :
                      /\ HasKey(stored, "auth")
                      /\ GetPasswords(stored) = <<Str(aw'.arg)>>
                      /\ SameExceptPasswords(DiskDoc(file), stored) ]_vars

====
